---- MODULE Spec2Model ----
(***************************************************************************)
(* A model of the jobly backend: the partial-update builder                *)
(* (helpers/sql.js), the Company and Job models (models/company.js,        *)
(* models/job.js) over a relational store, and the jobs routes             *)
(* (routes/jobs.js).                                                       *)
(*                                                                         *)
(* JavaScript values are records [t, s, n]; a JavaScript string is the     *)
(* sequence of its characters.  Object keys, column names and SQL text are *)
(* TLA+ strings, built with \o exactly where the code builds them with     *)
(* template literals.  A JavaScript object is the sequence of its          *)
(* [k, v] entries in insertion order.                                      *)
(***************************************************************************)
EXTENDS Integers, Sequences, FiniteSets, TLC

VARIABLES
    companies,  \* the rows of table companies
    jobs,       \* the rows of table jobs
    nextId,     \* the next value of the sequence behind jobs.id
    last,       \* the call of a model method or of the helper in progress
    http        \* the request in progress and its response

vars == <<companies, jobs, nextId, last, http>>

(***************************************************************************)
(* Bounds of the model.                                                    *)
(***************************************************************************)
\* the largest number of fields of the data of an update that is explored
MaxFields == 2
\* the largest number of keys of the criteria of a filter that is explored
MaxCriteria == 3

(***************************************************************************)
(* JavaScript values.                                                      *)
(***************************************************************************)
Str(cs) == [t |-> "string", s |-> cs, n |-> 0]
Num(k) == [t |-> "number", s |-> <<>>, n |-> k]
Bool(b) == [t |-> "boolean", s |-> <<>>, n |-> IF b THEN 1 ELSE 0]
Undefined == [t |-> "undefined", s |-> <<>>, n |-> 0]

\* the result of a conversion to number that is not a number
NaN == -1

\* ToBoolean: "", 0, false and undefined are falsy
Truthy(v) ==
    CASE v.t = "string" -> v.s # <<>>
      [] v.t = "number" -> v.n # 0
      [] v.t = "boolean" -> v.n = 1
      [] OTHER -> FALSE

Digit == [c \in {"0", "1", "2", "3", "4", "5", "6", "7", "8", "9"} |->
            CASE c = "0" -> 0 [] c = "1" -> 1 [] c = "2" -> 2 [] c = "3" -> 3
              [] c = "4" -> 4 [] c = "5" -> 5 [] c = "6" -> 6 [] c = "7" -> 7
              [] c = "8" -> 8 [] OTHER -> 9]

RECURSIVE ParseDigits(_, _)
ParseDigits(cs, acc) ==
    IF cs = <<>> THEN acc
    ELSE IF Head(cs) \notin DOMAIN Digit THEN NaN
    ELSE ParseDigits(Tail(cs), 10 * acc + Digit[Head(cs)])

\* unary plus: ToNumber
ToNumber(v) ==
    CASE v.t = "number" -> v.n
      [] v.t = "boolean" -> v.n
      [] v.t = "string" -> ParseDigits(v.s, 0)
      [] OTHER -> NaN

\* a > b on numbers: false when either side is NaN
NumGt(a, b) == a # NaN /\ b # NaN /\ a > b

RECURSIVE DigitsOf(_)
DigitsOf(k) ==
    IF k < 10 THEN <<ToString(k)>> ELSE DigitsOf(k \div 10) \o <<ToString(k % 10)>>

\* ToString as a template literal applies it: the characters of `${v}`
Chars(v) ==
    CASE v.t = "string" -> v.s
      [] v.t = "number" -> DigitsOf(v.n)
      [] v.t = "boolean" -> IF v.n = 1 THEN <<"t", "r", "u", "e">>
                                        ELSE <<"f", "a", "l", "s", "e">>
      [] OTHER -> <<"u", "n", "d", "e", "f", "i", "n", "e", "d">>

RECURSIVE Text(_)
Text(cs) == IF cs = <<>> THEN "" ELSE Head(cs) \o Text(Tail(cs))

(***************************************************************************)
(* JavaScript objects: entries in insertion order, keys distinct.          *)
(***************************************************************************)
ObjectKeys(obj) == [i \in 1..Len(obj) |-> obj[i].k]
ObjectValues(obj) == [i \in 1..Len(obj) |-> obj[i].v]
HasKey(obj, key) == \E i \in 1..Len(obj) : obj[i].k = key
\* obj[key]: undefined when the key is absent
Get(obj, key) ==
    IF HasKey(obj, key)
    THEN obj[CHOOSE i \in 1..Len(obj) : obj[i].k = key].v
    ELSE Undefined
\* obj[key] = v: an existing key keeps its position, a new key is appended
Put(obj, key, v) ==
    IF HasKey(obj, key)
    THEN [i \in 1..Len(obj) |-> IF obj[i].k = key THEN [k |-> key, v |-> v] ELSE obj[i]]
    ELSE Append(obj, [k |-> key, v |-> v])

RECURSIVE JoinWith(_, _)
JoinWith(parts, sep) ==
    IF parts = <<>> THEN ""
    ELSE IF Len(parts) = 1 THEN parts[1]
    ELSE parts[1] \o sep \o JoinWith(Tail(parts), sep)

\* the objects with at most n entries whose keys are drawn from keys and whose
\* values are drawn from vals[key]
Objects(keys, vals, n) ==
    LET Entries == {[k |-> key, v |-> val] : key \in keys, val \in UNION {vals[x] : x \in keys}}
        Good == {e \in Entries : e.v \in vals[e.k]}
    IN  UNION {{o \in [1..m -> Good] : \A i, j \in 1..m : i # j => o[i].k # o[j].k} : m \in 0..n}

(***************************************************************************)
(* helpers/sql.js                                                          *)
(***************************************************************************)
\* jsToSql[colName] || colName
ColumnOf(jsToSql, colName) ==
    IF colName \in DOMAIN jsToSql /\ jsToSql[colName] # "" THEN jsToSql[colName] ELSE colName

\* `"${column}"=$${idx + 1}` with idx + 1 = pos
ColFragment(column, pos) == "\"" \o column \o "\"=$" \o ToString(pos)

\* what the database reads in that fragment: the column and the placeholder
ColAssign(column, pos) == [col |-> column, ph |-> pos]

NoData == [error |-> "BadRequestError", message |-> "No data", cols |-> <<>>,
           assign |-> <<>>, setCols |-> "", values |-> <<>>]

\* a variant that numbers the placeholders from the array index idx, not idx + 1
sqlForPartialUpdateFromZero(dataToUpdate, jsToSql) ==
    LET keys == ObjectKeys(dataToUpdate)
        columns == [i \in 1..Len(keys) |-> ColumnOf(jsToSql, keys[i])]
        cols == [i \in 1..Len(keys) |-> ColFragment(columns[i], i - 1)]
        assign == [i \in 1..Len(keys) |-> ColAssign(columns[i], i - 1)]
    IN  IF Len(keys) = 0 THEN NoData
        ELSE [error |-> "", message |-> "", cols |-> cols, assign |-> assign,
              setCols |-> JoinWith(cols, ", "),
              values |-> ObjectValues(dataToUpdate)]

\* a variant without the check of line 37
sqlForPartialUpdateNoCheck(dataToUpdate, jsToSql) ==
    LET keys == ObjectKeys(dataToUpdate)
        columns == [i \in 1..Len(keys) |-> ColumnOf(jsToSql, keys[i])]
        cols == [i \in 1..Len(keys) |-> ColFragment(columns[i], i)]
        assign == [i \in 1..Len(keys) |-> ColAssign(columns[i], i)]
    IN  [error |-> "", message |-> "", cols |-> cols, assign |-> assign,
         setCols |-> JoinWith(cols, ", "),
         values |-> ObjectValues(dataToUpdate)]

\* a variant that writes each value into the text instead of a placeholder
sqlForPartialUpdateInline(dataToUpdate, jsToSql) ==
    LET keys == ObjectKeys(dataToUpdate)
        columns == [i \in 1..Len(keys) |-> ColumnOf(jsToSql, keys[i])]
        cols == [i \in 1..Len(keys) |->
                    "\"" \o columns[i] \o "\"='" \o Text(Chars(dataToUpdate[i].v)) \o "'"]
        assign == [i \in 1..Len(keys) |-> ColAssign(columns[i], i)]
    IN  IF Len(keys) = 0 THEN NoData
        ELSE [error |-> "", message |-> "", cols |-> cols, assign |-> assign,
              setCols |-> JoinWith(cols, ", "),
              values |-> ObjectValues(dataToUpdate)]

\* a variant that returns the values in the reverse of the keys' order
sqlForPartialUpdateReversed(dataToUpdate, jsToSql) ==
    LET keys == ObjectKeys(dataToUpdate)
        columns == [i \in 1..Len(keys) |-> ColumnOf(jsToSql, keys[i])]
        cols == [i \in 1..Len(keys) |-> ColFragment(columns[i], i)]
        assign == [i \in 1..Len(keys) |-> ColAssign(columns[i], i)]
    IN  IF Len(keys) = 0 THEN NoData
        ELSE [error |-> "", message |-> "", cols |-> cols, assign |-> assign,
              setCols |-> JoinWith(cols, ", "),
              values |-> [i \in 1..Len(keys) |-> dataToUpdate[Len(keys) + 1 - i].v]]

\* assign is what the database reads back from setCols
sqlForPartialUpdate(dataToUpdate, jsToSql) ==
    LET keys == ObjectKeys(dataToUpdate)
        columns == [i \in 1..Len(keys) |-> ColumnOf(jsToSql, keys[i])]
        cols == [i \in 1..Len(keys) |-> ColFragment(columns[i], i)]
        assign == [i \in 1..Len(keys) |-> ColAssign(columns[i], i)]
    IN  IF Len(keys) = 0 THEN NoData
        ELSE [error |-> "", message |-> "", cols |-> cols, assign |-> assign,
              setCols |-> JoinWith(cols, ", "),
              values |-> ObjectValues(dataToUpdate)]

(***************************************************************************)
(* The database: two tables.  A statement is its text, its bound values    *)
(* and the parse of its text (kind, table, set, where, select).            *)
(***************************************************************************)
CompanyColumns == {"handle", "name", "description", "num_employees", "logo_url"}
JobColumns == {"id", "title", "salary", "equity", "company_handle"}
NumericColumns == {"id", "salary", "equity", "num_employees"}

\* whether the database accepts value v for column col
Storable(col, v) ==
    IF col \in NumericColumns
    THEN v.t \in {"number", "string"} /\ (v.t = "string" => v.s # <<>>) /\ ToNumber(v) # NaN
    ELSE v.t \in {"number", "string", "boolean"}

\* the value the database keeps for column col when bound to v
Stored(col, v) == IF col \in NumericColumns THEN Num(ToNumber(v)) ELSE Str(Chars(v))

RECURSIVE AssignCols(_, _, _, _)
AssignCols(row, set, params, i) ==
    IF i > Len(set) THEN row
    ELSE AssignCols([row EXCEPT ![set[i].col] = Stored(set[i].col, params[set[i].ph])],
                    set, params, i + 1)

Handles(cs) == {c.handle : c \in cs}
ForeignKeysHold(cs, js) == \A j \in js : j.company_handle \in Handles(cs)

\* UPDATE <table> SET <set> WHERE <keyCol> = $<where> RETURNING ...
\* rows: the table; the answer is the new table and the rows returned
ExecUpdate(rows, tableCols, keyCol, stmt) ==
    LET params == stmt.params
        malformed == \/ stmt.set = <<>>
                     \/ stmt.where \notin 1..Len(params)
                     \/ \E i \in 1..Len(stmt.set) :
                           \/ stmt.set[i].col \notin tableCols
                           \/ stmt.set[i].ph \notin 1..Len(params)
                     \/ {stmt.set[i].ph : i \in 1..Len(stmt.set)} \cup {stmt.where}
                            # 1..Len(params)
        illTyped == \/ ~Storable(keyCol, params[stmt.where])
                    \/ \E i \in 1..Len(stmt.set) :
                           ~Storable(stmt.set[i].col, params[stmt.set[i].ph])
        key == Stored(keyCol, params[stmt.where])
        hit == {r \in rows : r[keyCol] = key}
        after == (rows \ hit) \cup {AssignCols(r, stmt.set, params, 1) : r \in hit}
        duplicate == Cardinality({r[keyCol] : r \in after}) # Cardinality(rows)
    IN  IF malformed \/ illTyped THEN [error |-> "DbError", rows |-> rows, returned |-> {}]
        ELSE IF duplicate THEN [error |-> "DbError", rows |-> rows, returned |-> {}]
        ELSE [error |-> "", rows |-> after,
              returned |-> {AssignCols(r, stmt.set, params, 1) : r \in hit}]

\* lower case, for the letters the model's names are written with
Lower(c) == CASE c = "A" -> "a" [] c = "B" -> "b" [] c = "X" -> "x" [] OTHER -> c

\* text ILIKE pat: % is any run of characters, _ any one character
RECURSIVE LikeMatch(_, _)
LikeMatch(text, pat) ==
    IF pat = <<>> THEN text = <<>>
    ELSE IF Head(pat) = "%"
    THEN LikeMatch(text, Tail(pat)) \/ (text # <<>> /\ LikeMatch(Tail(text), pat))
    ELSE IF Head(pat) = "_"
    THEN text # <<>> /\ LikeMatch(Tail(text), Tail(pat))
    ELSE /\ text # <<>>
         /\ Lower(Head(text)) = Lower(Head(pat))
         /\ LikeMatch(Tail(text), Tail(pat))

\* whether row r satisfies the condition <col> <op> $<ph>
Satisfies(r, w, params) ==
    CASE w.op = "ILIKE" -> LikeMatch(Chars(r[w.col]), Chars(params[w.ph]))
      [] w.op = ">=" -> r[w.col].n >= ToNumber(params[w.ph])
      [] w.op = "<=" -> r[w.col].n <= ToNumber(params[w.ph])
      [] w.op = "=" -> r[w.col] = Stored(w.col, params[w.ph])
      [] OTHER -> FALSE

\* SELECT <select> FROM <table> WHERE <where, joined by AND> ORDER BY ...
\* The answer is the set of the rows selected: their order is the database's
\* collation of the ORDER BY column and is not modelled.
ExecSelect(rows, tableCols, stmt) ==
    LET params == stmt.params
        malformed == \/ stmt.where = <<>>
                     \/ \E i \in 1..Len(stmt.select) : stmt.select[i] = ""
                     \/ \E j \in 1..Len(stmt.where) :
                           \/ stmt.where[j].col \notin tableCols
                           \/ stmt.where[j].op \notin {"ILIKE", ">=", "<=", "="}
                           \/ stmt.where[j].ph \notin 1..Len(params)
                     \/ {stmt.where[j].ph : j \in 1..Len(stmt.where)} # 1..Len(params)
        illTyped == \E j \in 1..Len(stmt.where) :
                        /\ stmt.where[j].op \in {">=", "<=", "="}
                        /\ ~Storable(stmt.where[j].col, params[stmt.where[j].ph])
    IN  IF malformed \/ illTyped THEN [error |-> "DbError", returned |-> {}]
        ELSE [error |-> "",
              returned |-> {r \in rows : \A j \in 1..Len(stmt.where) :
                                            Satisfies(r, stmt.where[j], params)}]

\* INSERT INTO jobs (<columns>) VALUES ($1, ...) RETURNING ...: the new row takes
\* the next value of the id sequence
ExecInsertJob(rows, id, stmt) ==
    LET params == stmt.params
        malformed == Len(stmt.columns) # Len(params)
                     \/ \E i \in 1..Len(stmt.columns) : stmt.columns[i] \notin JobColumns
        illTyped == \E i \in 1..Len(stmt.columns) : ~Storable(stmt.columns[i], params[i])
        blank == [id |-> Num(id), title |-> Undefined, salary |-> Undefined,
                  equity |-> Undefined, company_handle |-> Undefined]
        row == AssignCols(blank, [i \in 1..Len(stmt.columns) |->
                                     [col |-> stmt.columns[i], ph |-> i]], params, 1)
    IN  IF malformed \/ illTyped \/ (\E r \in rows : r.id = Num(id))
        THEN [error |-> "DbError", rows |-> rows, returned |-> {}]
        ELSE [error |-> "", rows |-> rows \cup {row}, returned |-> {row}]

\* DELETE FROM <table> WHERE <keyCol> = $1 RETURNING <keyCol>
ExecDelete(rows, keyCol, stmt) ==
    IF Len(stmt.params) # 1 \/ ~Storable(keyCol, stmt.params[1])
    THEN [error |-> "DbError", rows |-> rows, returned |-> {}]
    ELSE LET hit == {r \in rows : r[keyCol] = Stored(keyCol, stmt.params[1])}
         IN  [error |-> "", rows |-> rows \ hit, returned |-> hit]

\* RETURNING handle, name, description, num_employees AS "numEmployees", logo_url AS "logoUrl"
CompanyView(r) ==
    [handle |-> r.handle, name |-> r.name, description |-> r.description,
     numEmployees |-> r.num_employees, logoUrl |-> r.logo_url]

\* RETURNING id, title, company_handle AS "companyHandle", salary, equity
\* (the driver returns a NUMERIC column as a string)
JobView(r) ==
    [id |-> r.id, title |-> r.title, companyHandle |-> r.company_handle,
     salary |-> r.salary, equity |-> Str(Chars(r.equity))]

(***************************************************************************)
(* The calls.  last is the call in progress or just finished: the          *)
(* operation, its arguments (data is the object as the caller passed it,   *)
(* after is that object when the call ends), the statements it sent to the *)
(* database, the error it threw ("" when none) and what it returned.       *)
(***************************************************************************)
Idle == [op |-> "idle", key |-> Undefined, data |-> <<>>, after |-> <<>>, map |-> <<>>,
         error |-> "", message |-> "", stmts |-> <<>>, ret |-> <<>>]

\* what a model method does: what it throws or returns, the statements it sent,
\* the table as it leaves it, and its argument object as it leaves it
Outcome(error, message, stmts, ret, rows, after) ==
    [error |-> error, message |-> message, stmts |-> stmts, ret |-> ret,
     rows |-> rows, after |-> after]

Called(op, key, data, map, out) ==
    [op |-> op, key |-> key, data |-> data, after |-> out.after, map |-> map,
     error |-> out.error, message |-> out.message, stmts |-> out.stmts, ret |-> out.ret]

(***************************************************************************)
(* models/company.js: Company.update                                       *)
(***************************************************************************)
CompanyJsToSql == [numEmployees |-> "num_employees", logoUrl |-> "logo_url"]

\* a variant that refers to the handle with the number of the last field
CompanyUpdateStmtNoShift(handle, built) ==
    LET handleVarIdx == "$" \o ToString(Len(built.values))
    IN  [kind |-> "UPDATE", table |-> "companies",
         text |-> "UPDATE companies SET " \o built.setCols \o " WHERE handle = "
                  \o handleVarIdx \o " RETURNING handle, name, description, "
                  \o "num_employees AS \"numEmployees\", logo_url AS \"logoUrl\"",
         params |-> built.values \o <<handle>>,
         set |-> built.assign,
         where |-> Len(built.values)]

\* the statement of lines 120-130, white space normalised
CompanyUpdateStmt(handle, built) ==
    LET handleVarIdx == "$" \o ToString(Len(built.values) + 1)
    IN  [kind |-> "UPDATE", table |-> "companies",
         text |-> "UPDATE companies SET " \o built.setCols \o " WHERE handle = "
                  \o handleVarIdx \o " RETURNING handle, name, description, "
                  \o "num_employees AS \"numEmployees\", logo_url AS \"logoUrl\"",
         params |-> built.values \o <<handle>>,
         set |-> built.assign,
         where |-> Len(built.values) + 1]

CompanyUpdate(handle, data) ==
    LET built == sqlForPartialUpdate(data, CompanyJsToSql)
        stmt == CompanyUpdateStmt(handle, built)
        res == ExecUpdate(companies, CompanyColumns, "handle", stmt)
        broken == res.error # "" \/ ~ForeignKeysHold(res.rows, jobs)
    IN  IF built.error # ""
        THEN Outcome(built.error, built.message, <<>>, <<>>, companies, data)
        ELSE IF broken
        THEN Outcome("DbError", "", <<stmt>>, <<>>, companies, data)
        ELSE IF res.returned = {}
        THEN Outcome("NotFoundError", "No company: " \o Text(Chars(handle)),
                     <<stmt>>, <<>>, res.rows, data)
        ELSE Outcome("", "", <<stmt>>, CompanyView(CHOOSE r \in res.returned : TRUE),
                     res.rows, data)

(***************************************************************************)
(* models/job.js: Job.update                                               *)
(***************************************************************************)
JobJsToSql == [companyHandle |-> "company_handle"]

\* the statement of lines 141-153, white space normalised
JobUpdateStmt(id, built) ==
    LET values == Append(built.values, id)
    IN  [kind |-> "UPDATE", table |-> "jobs",
         text |-> "UPDATE jobs SET " \o built.setCols \o " WHERE id = $"
                  \o ToString(Len(values)) \o " RETURNING id, title, "
                  \o "company_handle AS \"companyHandle\", salary, equity",
         params |-> values,
         set |-> built.assign,
         where |-> Len(values)]

\* if (data.id || data.companyHandle)
JobUpdateRefuses(data) == Truthy(Get(data, "id")) \/ Truthy(Get(data, "companyHandle"))

JobUpdate(id, data) ==
    LET built == sqlForPartialUpdate(data, JobJsToSql)
        stmt == JobUpdateStmt(id, built)
        res == ExecUpdate(jobs, JobColumns, "id", stmt)
        broken == res.error # "" \/ ~ForeignKeysHold(companies, res.rows)
    IN  IF JobUpdateRefuses(data)
        THEN Outcome("BadRequestError", "Job id and companyHandle can not be changed",
                     <<>>, <<>>, jobs, data)
        ELSE IF built.error # ""
        THEN Outcome(built.error, built.message, <<>>, <<>>, jobs, data)
        ELSE IF broken
        THEN Outcome("DbError", "", <<stmt>>, <<>>, jobs, data)
        ELSE IF res.returned = {}
        THEN Outcome("NotFoundError", "No job with id:" \o Text(Chars(id)),
                     <<stmt>>, <<>>, res.rows, data)
        ELSE Outcome("", "", <<stmt>>, JobView(CHOOSE r \in res.returned : TRUE),
                     res.rows, data)

(***************************************************************************)
(* The calls of the helper and of the two updates.                         *)
(***************************************************************************)
\* a direct call of the helper, as its callers and its tests make it
CallSqlForPartialUpdate(dataToUpdate, jsToSql) ==
    LET built == sqlForPartialUpdate(dataToUpdate, jsToSql)
    IN  /\ last.op = "idle"
        /\ http.method = ""
        /\ last' = Called("sqlForPartialUpdate", Undefined, dataToUpdate, jsToSql,
                          Outcome(built.error, built.message, <<>>, built, {}, dataToUpdate))
        /\ UNCHANGED <<companies, jobs, nextId, http>>

CallCompanyUpdate(handle, data) ==
    LET out == CompanyUpdate(handle, data)
    IN  /\ last.op = "idle"
        /\ http.method = ""
        /\ last' = Called("Company.update", handle, data, CompanyJsToSql, out)
        /\ companies' = out.rows
        /\ UNCHANGED <<jobs, nextId, http>>

CallJobUpdate(id, data) ==
    LET out == JobUpdate(id, data)
    IN  /\ last.op = "idle"
        /\ http.method = ""
        /\ last' = Called("Job.update", id, data, JobJsToSql, out)
        /\ jobs' = out.rows
        /\ UNCHANGED <<companies, nextId, http>>

NoRequest == [method |-> "", cred |-> "", id |-> Undefined, input |-> <<>>, status |-> 0,
              message |-> "", gate |-> "", stmts |-> <<>>, body |-> <<>>]

\* the call has returned or thrown, the response has been sent
Return ==
    /\ last.op # "idle" \/ http.method # ""
    /\ last' = Idle
    /\ http' = NoRequest
    /\ UNCHANGED <<companies, jobs, nextId>>

(***************************************************************************)
(* The inputs and the initial state.                                       *)
(***************************************************************************)
C1Handle == Str(<<"c", "1">>)
C2Handle == Str(<<"c", "2">>)
NoHandle == Str(<<"n", "o">>)

InitCompanies ==
    {[handle |-> C1Handle, name |-> Str(<<"A", "b">>), description |-> Str(<<"d">>),
      num_employees |-> Num(5), logo_url |-> Str(<<"u">>)],
     [handle |-> C2Handle, name |-> Str(<<"b">>), description |-> Str(<<"d">>),
      num_employees |-> Num(10), logo_url |-> Str(<<"u">>)]}

InitJobs ==
    {[id |-> Num(1), title |-> Str(<<"A", "b">>), salary |-> Num(5), equity |-> Num(1),
      company_handle |-> C1Handle],
     [id |-> Num(2), title |-> Str(<<"b">>), salary |-> Num(10), equity |-> Num(0),
      company_handle |-> C2Handle]}

\* the values tried for each field of an update
UpdateVals ==
    [name |-> {Str(<<"A", "b">>), Str(<<"x">>)},
     numEmployees |-> {Num(5), Num(3)},
     logoUrl |-> {Str(<<"u">>), Str(<<"v">>)},
     title |-> {Str(<<"A", "b">>), Str(<<"x">>)},
     salary |-> {Num(5), Num(3)},
     id |-> {Num(0), Num(2)},
     companyHandle |-> {Str(<<>>), C2Handle}]

CompanyUpdateKeys == {"name", "numEmployees", "logoUrl"}
JobUpdateKeys == {"title", "salary", "id", "companyHandle"}
CompanyUpdates == Objects(CompanyUpdateKeys, UpdateVals, MaxFields)
JobUpdates == Objects(JobUpdateKeys, UpdateVals, MaxFields)
AnyUpdates == Objects({"name", "numEmployees", "id", "companyHandle"}, UpdateVals, MaxFields)
Mappings == {CompanyJsToSql, JobJsToSql, <<>>}
HandleArgs == {C1Handle, NoHandle}
IdArgs == {Num(0), Num(1), Num(3)}

Init ==
    /\ companies = InitCompanies
    /\ jobs = InitJobs
    /\ nextId = 3
    /\ last = Idle
    /\ http = NoRequest

NextUpdate ==
    \/ \E d \in AnyUpdates, m \in Mappings : CallSqlForPartialUpdate(d, m)
    \/ \E h \in HandleArgs, d \in CompanyUpdates : CallCompanyUpdate(h, d)
    \/ \E i \in IdArgs, d \in JobUpdates : CallJobUpdate(i, d)
    \/ Return

SpecUpdate == Init /\ [][NextUpdate]_vars

(***************************************************************************)
(* Properties of the partial-update builder and of the two updates,        *)
(* checked under SpecUpdate.                                               *)
(***************************************************************************)
UpdateOps == {"sqlForPartialUpdate", "Company.update", "Job.update"}

\* the column the claim names for a key: the mapped name when the key is
\* mapped, the key itself otherwise
ClaimedColumn(map, key) == IF key \in DOMAIN map THEN map[key] ELSE key

\* C1: a call of sqlForPartialUpdate with N > 0 keys returns N fragments and
\* N values; fragment i is "<column>"=$i for the column of the i-th key in
\* insertion order, and values[i] is the value given for that key.
C1_FragmentsAndValues ==
    (last.op = "sqlForPartialUpdate" /\ Len(last.data) > 0) =>
        /\ last.error = ""
        /\ Len(last.ret.cols) = Len(last.data)
        /\ Len(last.ret.values) = Len(last.data)
        /\ \A i \in 1..Len(last.data) :
              /\ last.ret.cols[i] = "\"" \o ClaimedColumn(last.map, last.data[i].k)
                                    \o "\"=$" \o ToString(i)
              /\ last.ret.values[i] = last.data[i].v

\* a call with two keys, the first mapped and the second not
C1_Witness ==
    /\ last.op = "sqlForPartialUpdate"
    /\ last.error = ""
    /\ Len(last.data) = 2
    /\ last.data[1].k \in DOMAIN last.map
    /\ last.data[2].k \notin DOMAIN last.map
    /\ last.ret.cols[2] = "\"" \o last.data[2].k \o "\"=$2"

\* C2: every call of sqlForPartialUpdate, Company.update or Job.update with
\* empty data throws BadRequestError, sends no statement and leaves both
\* tables as they were.
C2_EmptyDataRejected ==
    [][(last'.op \in UpdateOps /\ last'.data = <<>>) =>
          /\ last'.error = "BadRequestError"
          /\ last'.stmts = <<>>
          /\ companies' = companies
          /\ jobs' = jobs]_vars

C2_Witness ==
    /\ last.op = "Company.update"
    /\ last.data = <<>>
    /\ last.error = "BadRequestError"
    /\ last.message = "No data"

\* the object with the keys of data, in the same order, and no values
Blank(data) == [i \in 1..Len(data) |-> [k |-> data[i].k, v |-> Undefined]]

\* C3: the text built for a partial update is the text built for the same
\* keys with every value erased (and any row key): it depends on the keys
\* alone, and the values are all in the bound parameters.
C3_TextFromKeysOnly ==
    /\ (last.op = "sqlForPartialUpdate" /\ last.error = "") =>
          /\ last.ret.setCols = sqlForPartialUpdate(Blank(last.data), last.map).setCols
          /\ last.ret.values = ObjectValues(last.data)
    /\ (last.op = "Company.update" /\ last.stmts # <<>>) =>
          /\ last.stmts[1].text =
                CompanyUpdateStmt(Undefined,
                    sqlForPartialUpdate(Blank(last.data), CompanyJsToSql)).text
          /\ last.stmts[1].params = ObjectValues(last.data) \o <<last.key>>
    /\ (last.op = "Job.update" /\ last.stmts # <<>>) =>
          /\ last.stmts[1].text =
                JobUpdateStmt(Undefined,
                    sqlForPartialUpdate(Blank(last.data), JobJsToSql)).text
          /\ last.stmts[1].params = ObjectValues(last.data) \o <<last.key>>

\* an update of two fields that reached the database
C3_Witness ==
    /\ last.op = "Job.update"
    /\ last.key = Num(1)
    /\ last.error = ""
    /\ Len(last.data) = 2
    /\ Len(last.stmts) = 1
    /\ last.stmts[1].text = "UPDATE jobs SET \"title\"=$1, \"salary\"=$2 WHERE id = $3"
           \o " RETURNING id, title, company_handle AS \"companyHandle\", salary, equity"

\* C10: Job.update throws BadRequestError, and sends no statement, for every
\* data that names id or companyHandle, whatever the value.
C10_IdAndHandleRefused ==
    (last.op = "Job.update" /\ (HasKey(last.data, "id") \/ HasKey(last.data, "companyHandle"))) =>
        (last.error = "BadRequestError" /\ last.stmts = <<>>)

(***************************************************************************)
(* models/company.js: Company.filter; models/job.js: Job.filter, findAll   *)
(***************************************************************************)
\* `%${v}%`
Wrapped(v) == Str(<<"%">> \o Chars(v) \o <<"%">>)

\* a variant that numbers each placeholder with the position of its key in the
\* criteria, not with the number of values bound so far
RECURSIVE FilterLoopByPosition(_, _, _, _)
FilterLoopByPosition(query, sqlMap, i, acc) ==
    IF i > Len(query) THEN acc
    ELSE IF Truthy(query[i].v) /\ query[i].k \in DOMAIN sqlMap
    THEN LET params == Append(acc.params, query[i].v)
             entry == sqlMap[query[i].k]
         IN  FilterLoopByPosition(query, sqlMap, i + 1,
                 [params |-> params,
                  conditions |-> Append(acc.conditions,
                                        entry.text \o " $" \o ToString(i)),
                  where |-> Append(acc.where,
                                   [col |-> entry.col, op |-> entry.op, ph |-> i])])
    ELSE FilterLoopByPosition(query, sqlMap, i + 1, acc)

\* the forEach of company.js:202-207 and job.js:200-205 from entry i on: one
\* predicate and one bound value for each key with a truthy value that sqlMap
\* has; where is what the database reads in the predicates
RECURSIVE FilterLoop(_, _, _, _)
FilterLoop(query, sqlMap, i, acc) ==
    IF i > Len(query) THEN acc
    ELSE IF Truthy(query[i].v) /\ query[i].k \in DOMAIN sqlMap
    THEN LET params == Append(acc.params, query[i].v)
             entry == sqlMap[query[i].k]
         IN  FilterLoop(query, sqlMap, i + 1,
                 [params |-> params,
                  conditions |-> Append(acc.conditions,
                                        entry.text \o " $" \o ToString(Len(params))),
                  where |-> Append(acc.where,
                                   [col |-> entry.col, op |-> entry.op, ph |-> Len(params)])])
    ELSE FilterLoop(query, sqlMap, i + 1, acc)

NoConditions == [params |-> <<>>, conditions |-> <<>>, where |-> <<>>]

CompanySqlMap ==
    [nameLike |-> [text |-> "name ILIKE", col |-> "name", op |-> "ILIKE"],
     minEmployees |-> [text |-> "num_employees >=", col |-> "num_employees", op |-> ">="],
     maxEmployees |-> [text |-> "num_employees <=", col |-> "num_employees", op |-> "<="]]

\* the statement of company.js:209-221, white space normalised
CompanyFilterStmt(built) ==
    [kind |-> "SELECT", table |-> "companies",
     text |-> "SELECT handle, name, description, num_employees AS \"numEmployees\", "
              \o "logo_url AS \"logoUrl\" FROM companies WHERE "
              \o JoinWith(built.conditions, " AND ") \o " ORDER BY name",
     params |-> built.params,
     select |-> <<"handle", "name", "description", "num_employees AS \"numEmployees\"",
                  "logo_url AS \"logoUrl\"">>,
     conditions |-> built.conditions,
     where |-> built.where]

\* a variant that compares the two bounds as they are given, without unary plus:
\* two strings compare character by character
RECURSIVE StringGt(_, _)
StringGt(a, b) ==
    IF a = <<>> THEN FALSE
    ELSE IF b = <<>> THEN TRUE
    ELSE IF Head(a) = Head(b) THEN StringGt(Tail(a), Tail(b))
    ELSE IF Head(a) \in DOMAIN Digit /\ Head(b) \in DOMAIN Digit
    THEN Digit[Head(a)] > Digit[Head(b)]
    ELSE FALSE

MinExceedsMaxUncoerced(min, max) ==
    IF min.t = "string" /\ max.t = "string" THEN StringGt(min.s, max.s)
    ELSE NumGt(ToNumber(min), ToNumber(max))

\* +query.minEmployees > +query.maxEmployees
MinExceedsMax(min, max) == NumGt(ToNumber(min), ToNumber(max))

CompanyFilter(query) ==
    LET nameLike == Get(query, "nameLike")
        min == Get(query, "minEmployees")
        max == Get(query, "maxEmployees")
        wrapped == IF Truthy(nameLike) THEN Put(query, "nameLike", Wrapped(nameLike))
                   ELSE query
        built == FilterLoop(wrapped, CompanySqlMap, 1, NoConditions)
        stmt == CompanyFilterStmt(built)
        res == ExecSelect(companies, CompanyColumns, stmt)
    IN  IF ~Truthy(nameLike) /\ ~Truthy(min) /\ ~Truthy(max)
        THEN Outcome("BadRequestError", "Invalid search criteria", <<>>, <<>>,
                     companies, query)
        ELSE IF Truthy(min) /\ Truthy(max) /\ MinExceedsMax(min, max)
        THEN Outcome("BadRequestError",
                     "Invalid request, minEmployees can not exceed maxEmployees",
                     <<>>, <<>>, companies, query)
        ELSE IF res.error # ""
        THEN Outcome("DbError", "", <<stmt>>, <<>>, companies, wrapped)
        ELSE Outcome("", "", <<stmt>>, {CompanyView(r) : r \in res.returned},
                     companies, wrapped)

\* `equity ${'= 0' ? !query.hasEquity : '> 0'}`: the condition of the ternary
\* is the string '= 0'
EquityCondition(query) ==
    IF Truthy(Str(<<"=", " ", "0">>))
    THEN Chars(Bool(~Truthy(Get(query, "hasEquity"))))
    ELSE <<">", " ", "0">>

\* a variant that binds the caller's value as it came, without the wildcards
JobWrapTitleNot(query) == query

\* if (query.title) query.title = `%${query.title}%`
JobWrapTitle(query) ==
    IF Truthy(Get(query, "title")) THEN Put(query, "title", Wrapped(Get(query, "title")))
    ELSE query

JobSqlMap(query) ==
    [title |-> [text |-> "title ILIKE", col |-> "title", op |-> "ILIKE"],
     minSalary |-> [text |-> "salary >=", col |-> "salary", op |-> ">="],
     hasEquity |-> [text |-> "equity " \o Text(EquityCondition(query)), col |-> "equity",
                    op |-> Text(EquityCondition(query))]]

\* the statement of job.js:207-219, white space normalised; the select list
\* ends with a comma, so its last item is empty
JobFilterStmt(built) ==
    [kind |-> "SELECT", table |-> "jobs",
     text |-> "SELECT id, title, company_handle AS companyHandle, salary, equity, "
              \o "FROM jobs WHERE " \o JoinWith(built.conditions, " AND ")
              \o " ORDER BY title, companyHandle",
     params |-> built.params,
     select |-> <<"id", "title", "company_handle AS companyHandle", "salary", "equity", "">>,
     conditions |-> built.conditions,
     where |-> built.where]

\* a row as job.js:210-214 selects it: an unquoted alias is folded to lower case
JobFilterView(r) ==
    [id |-> r.id, title |-> r.title, companyhandle |-> r.company_handle,
     salary |-> r.salary, equity |-> Str(Chars(r.equity))]

\* a variant whose first check looks for the keys, not for truthy values
JobFilterRejectsByKey(query) ==
    ~HasKey(query, "title") /\ ~HasKey(query, "minSalary") /\ ~HasKey(query, "hasEquity")

\* a variant without the first check
JobFilterRejectsNone(query) == FALSE

\* if (!query.title && !query.minSalary && !query.hasEquity)
JobFilterRejects(query) ==
    /\ ~Truthy(Get(query, "title"))
    /\ ~Truthy(Get(query, "minSalary"))
    /\ ~Truthy(Get(query, "hasEquity"))

JobFilter(query) ==
    LET wrapped == JobWrapTitle(query)
        built == FilterLoop(wrapped, JobSqlMap(wrapped), 1, NoConditions)
        stmt == JobFilterStmt(built)
        res == ExecSelect(jobs, JobColumns, stmt)
    IN  IF JobFilterRejects(query)
        THEN Outcome("BadRequestError", "Invalid search criteria", <<>>, <<>>, jobs, query)
        ELSE IF res.error # ""
        THEN Outcome("DbError", "", <<stmt>>, <<>>, jobs, wrapped)
        ELSE Outcome("", "", <<stmt>>, {JobFilterView(r) : r \in res.returned},
                     jobs, wrapped)

JobFindAll ==
    Outcome("", "",
            <<[kind |-> "SELECT", table |-> "jobs",
               text |-> "SELECT id, title, company_handle AS \"companyHandle\", salary, "
                        \o "equity FROM jobs ORDER BY title, company_handle",
               params |-> <<>>]>>,
            {JobView(r) : r \in jobs}, jobs, <<>>)

(***************************************************************************)
(* The response to a request.  The application's error handler answers an  *)
(* error with its status and {error: {message, status}}.                   *)
(***************************************************************************)
ErrorStatus(error) ==
    CASE error = "BadRequestError" -> 400
      [] error = "UnauthorizedError" -> 401
      [] error = "NotFoundError" -> 404
      [] OTHER -> 500

Response(method, cred, id, input, okStatus, gate, out) ==
    [method |-> method, cred |-> cred, id |-> id, input |-> input,
     status |-> IF out.error = "" THEN okStatus ELSE ErrorStatus(out.error),
     message |-> out.message, gate |-> gate, stmts |-> out.stmts,
     body |-> out.ret]

\* routes/jobs.js: GET /jobs, open to all
GetJobs(query) ==
    IF Len(query) = 0 THEN JobFindAll ELSE JobFilter(query)

CallCompanyFilter(query) ==
    LET out == CompanyFilter(query)
    IN  /\ last.op = "idle"
        /\ http.method = ""
        /\ last' = Called("Company.filter", Undefined, query, CompanySqlMap, out)
        /\ UNCHANGED <<companies, jobs, nextId, http>>

CallJobFilter(query) ==
    LET out == JobFilter(query)
    IN  /\ last.op = "idle"
        /\ http.method = ""
        /\ last' = Called("Job.filter", Undefined, query, JobSqlMap(out.after), out)
        /\ UNCHANGED <<companies, jobs, nextId, http>>

RequestGetJobs(cred, query) ==
    /\ last.op = "idle"
    /\ http.method = ""
    /\ http' = Response("GET", cred, Undefined, query, 200, "", GetJobs(query))
    /\ UNCHANGED <<companies, jobs, nextId, last>>

\* the values tried for each key of the criteria
FilterVals ==
    [nameLike |-> {Str(<<>>), Str(<<"a">>)},
     minEmployees |-> {Str(<<"1", "0">>), Num(5)},
     maxEmployees |-> {Str(<<"5">>), Num(0)},
     title |-> {Str(<<>>), Str(<<"b">>)},
     minSalary |-> {Str(<<"5">>), Num(0), Str(<<"2", "0">>)},
     hasEquity |-> {Bool(TRUE), Bool(FALSE), Str(<<"t", "r", "u", "e">>)},
     notValid |-> {Str(<<"1", "0">>)}]

CompanyRecognized == {"nameLike", "minEmployees", "maxEmployees"}
JobRecognized == {"title", "minSalary", "hasEquity"}
CompanyQueries == Objects(CompanyRecognized \cup {"notValid"}, FilterVals, MaxCriteria)
JobQueries == Objects(JobRecognized \cup {"notValid"}, FilterVals, MaxCriteria)
\* a query string gives strings only
QueryStrings == {q \in JobQueries : \A i \in 1..Len(q) : q[i].v.t = "string"}
Credentials == {"none", "invalid", "user", "admin"}

NextFilter ==
    \/ \E q \in CompanyQueries : CallCompanyFilter(q)
    \/ \E q \in JobQueries : CallJobFilter(q)
    \/ \E q \in QueryStrings : RequestGetJobs("none", q)
    \/ Return

SpecFilter == Init /\ [][NextFilter]_vars

(***************************************************************************)
(* Properties of the two filters and of GET /jobs, checked under           *)
(* SpecFilter.                                                             *)
(***************************************************************************)
FilterOps == {"Company.filter", "Job.filter"}
Recognized(op) == IF op = "Company.filter" THEN CompanyRecognized ELSE JobRecognized
NoRecognizedKey(query, keys) == \A i \in 1..Len(query) : query[i].k \notin keys
NoTruthyRecognized(query, keys) ==
    \A i \in 1..Len(query) : query[i].k \in keys => ~Truthy(query[i].v)
InvalidCriteria(call) ==
    call.error = "BadRequestError" /\ call.message = "Invalid search criteria"

\* C4 (as stated): a filter throws 'Invalid search criteria' exactly when the
\* criteria contain no recognized key.
C4_RejectedIffNoRecognizedKey ==
    last.op \in FilterOps =>
        (InvalidCriteria(last) <=> NoRecognizedKey(last.data, Recognized(last.op)))

\* C4 (amended): a filter throws 'Invalid search criteria' exactly when no
\* recognized key of the criteria has a truthy value, and then sends no
\* statement; GET /jobs with a non-empty query of unrecognized keys only
\* answers 400 with that message.
C4_RejectedIffNoTruthyRecognized ==
    /\ last.op \in FilterOps =>
          /\ InvalidCriteria(last) <=> NoTruthyRecognized(last.data, Recognized(last.op))
          /\ InvalidCriteria(last) => last.stmts = <<>>
    /\ (/\ http.method = "GET"
        /\ Len(http.input) > 0
        /\ NoRecognizedKey(http.input, JobRecognized)) =>
          /\ http.status = 400
          /\ http.message = "Invalid search criteria"
          /\ http.stmts = <<>>

\* a recognized key is there, its value is falsy, and the filter rejects
C4_Witness ==
    /\ last.op = "Job.filter"
    /\ HasKey(last.data, "hasEquity")
    /\ Get(last.data, "hasEquity") = Bool(FALSE)
    /\ InvalidCriteria(last)
    /\ last.stmts = <<>>

\* C5: Company.filter throws the validation error, and sends no statement,
\* whenever minEmployees and maxEmployees are both in the criteria and
\* minEmployees exceeds maxEmployees.
C5_RangeRejected ==
    (/\ last.op = "Company.filter"
     /\ HasKey(last.data, "minEmployees")
     /\ HasKey(last.data, "maxEmployees")
     /\ NumGt(ToNumber(Get(last.data, "minEmployees")),
              ToNumber(Get(last.data, "maxEmployees")))) =>
        (last.error = "BadRequestError" /\ last.stmts = <<>>)

\* the jobs that satisfy the title and minSalary criteria of query
MeetsOtherCriteria(r, query) ==
    /\ Truthy(Get(query, "title")) =>
          LikeMatch(Chars(r.title), <<"%">> \o Chars(Get(query, "title")) \o <<"%">>)
    /\ Truthy(Get(query, "minSalary")) => r.salary.n >= ToNumber(Get(query, "minSalary"))

\* C6: with hasEquity true, Job.filter returns exactly the jobs with
\* equity > 0 (that meet the other criteria); with hasEquity false or absent
\* no predicate is about equity.
C6_HasEquity ==
    (last.op = "Job.filter" /\ ~InvalidCriteria(last)) =>
        /\ Get(last.data, "hasEquity") = Bool(TRUE) =>
              /\ last.error = ""
              /\ {r.id : r \in last.ret} =
                    {r.id : r \in {j \in jobs : j.equity.n > 0
                                                /\ MeetsOtherCriteria(j, last.data)}}
        /\ Get(last.data, "hasEquity") \in {Bool(FALSE), Undefined} =>
              \A j \in 1..Len(last.stmts[1].where) : last.stmts[1].where[j].col # "equity"

ContainsKey(op) == IF op = "Company.filter" THEN "nameLike" ELSE "title"
ContainsText(op) == IF op = "Company.filter" THEN "name ILIKE" ELSE "title ILIKE"

\* C7: when a filter with a 'contains' value v reaches the database, exactly one
\* predicate is an ILIKE, its text is the fixed text and its placeholder, and
\* the value bound to that placeholder is '%' + v + '%'.
C7_ContainsWrappedOnce ==
    (/\ last.op \in FilterOps
     /\ last.stmts # <<>>
     /\ Truthy(Get(last.data, ContainsKey(last.op)))) =>
        LET stmt == last.stmts[1]
            v == Get(last.data, ContainsKey(last.op))
            likes == {j \in 1..Len(stmt.where) : stmt.where[j].op = "ILIKE"}
        IN  /\ Cardinality(likes) = 1
            /\ \A j \in likes :
                  /\ stmt.conditions[j] = ContainsText(last.op) \o " $" \o ToString(j)
                  /\ stmt.where[j].ph = j
                  /\ stmt.params[j] = Str(<<"%">> \o Chars(v) \o <<"%">>)
                  /\ stmt.params[j] # v

\* nameLike 'a' is bound as '%a%' and finds the company named 'Ab'
C7_Witness ==
    /\ last.op = "Company.filter"
    /\ last.data = <<[k |-> "minEmployees", v |-> Num(5)], [k |-> "nameLike", v |-> Str(<<"a">>)]>>
    /\ last.error = ""
    /\ last.stmts[1].params = <<Num(5), Str(<<"%", "a", "%">>)>>
    /\ last.stmts[1].conditions = <<"num_employees >= $1", "name ILIKE $2">>
    /\ {r.handle : r \in last.ret} = {C1Handle}

(***************************************************************************)
(* models/job.js: Job.create, Job.remove                                   *)
(***************************************************************************)
\* the query of job.js:18-25
JobDuplicateCheck(data) ==
    [kind |-> "SELECT", table |-> "jobs",
     text |-> "SELECT company_handle, title, salary FROM jobs WHERE company_handle = $1 "
              \o "AND title = $2 AND salary = $3",
     params |-> <<Get(data, "companyHandle"), Get(data, "title"), Get(data, "salary")>>,
     select |-> <<"company_handle", "title", "salary">>,
     conditions |-> <<"company_handle = $1", "title = $2", "salary = $3">>,
     where |-> <<[col |-> "company_handle", op |-> "=", ph |-> 1],
                 [col |-> "title", op |-> "=", ph |-> 2],
                 [col |-> "salary", op |-> "=", ph |-> 3]>>]

\* the statement of job.js:30-36
JobInsertStmt(data) ==
    [kind |-> "INSERT", table |-> "jobs",
     text |-> "INSERT INTO jobs (title, salary, equity, company_handle) VALUES ($1,$2,$3,$4) "
              \o "RETURNING id, title, company_handle AS \"companyHandle\", salary, equity",
     params |-> <<Get(data, "title"), Get(data, "salary"), Get(data, "equity"),
                  Get(data, "companyHandle")>>,
     columns |-> <<"title", "salary", "equity", "company_handle">>]

\* the second half of Job.create: the insert, after the duplicate check found
\* nothing (check is the statement of that check)
JobCreateInsert(data, check) ==
    LET stmt == JobInsertStmt(data)
        res == ExecInsertJob(jobs, nextId, stmt)
    IN  IF res.error # "" \/ ~ForeignKeysHold(companies, res.rows)
        THEN Outcome("DbError", "", <<check, stmt>>, <<>>, jobs, data)
        ELSE Outcome("", "", <<check, stmt>>, JobView(CHOOSE r \in res.returned : TRUE),
                     res.rows, data)

JobCreate(data) ==
    LET check == JobDuplicateCheck(data)
        found == ExecSelect(jobs, JobColumns, check)
    IN  IF found.error # ""
        THEN Outcome("DbError", "", <<check>>, <<>>, jobs, data)
        ELSE IF found.returned # {}
        THEN Outcome("BadRequestError",
                     "Duplicate job: " \o Text(Chars(Get(data, "title"))) \o " at "
                         \o Text(Chars(Get(data, "companyHandle"))),
                     <<check>>, <<>>, jobs, data)
        ELSE JobCreateInsert(data, check)

JobRemove(id) ==
    LET stmt == [kind |-> "DELETE", table |-> "jobs",
                 text |-> "DELETE FROM jobs WHERE id = $1 RETURNING id",
                 params |-> <<id>>]
        res == ExecDelete(jobs, "id", stmt)
    IN  IF res.error # ""
        THEN Outcome("DbError", "", <<stmt>>, <<>>, jobs, <<>>)
        ELSE IF res.returned = {}
        THEN Outcome("NotFoundError", "No job found with id " \o Text(Chars(id)),
                     <<stmt>>, <<>>, res.rows, <<>>)
        ELSE Outcome("", "", <<stmt>>, <<>>, res.rows, <<>>)

(***************************************************************************)
(* routes/jobs.js                                                          *)
(***************************************************************************)
IsInteger(v) == v.t = "number"
IsString(v) == v.t = "string"

\* jsonschema.validate(req.body, jobNewSchema).valid
ValidJobNew(body) ==
    /\ \A key \in {"title", "salary", "equity", "companyHandle"} : HasKey(body, key)
    /\ IsString(Get(body, "title")) /\ Len(Get(body, "title").s) >= 1
    /\ IsInteger(Get(body, "salary")) /\ Get(body, "salary").n >= 1
    /\ IsInteger(Get(body, "equity")) /\ Get(body, "equity").n <= 1
    /\ IsString(Get(body, "companyHandle"))
    /\ Len(Get(body, "companyHandle").s) \in 1..10

\* jsonschema.validate(req.body, jobUpdateSchema).valid: the fields an update
\* can include, each of its type when it is there
ValidJobUpdate(body) ==
    /\ HasKey(body, "title") => IsString(Get(body, "title")) /\ Len(Get(body, "title").s) >= 1
    /\ HasKey(body, "salary") => IsInteger(Get(body, "salary"))
    /\ HasKey(body, "equity") => IsInteger(Get(body, "equity")) /\ Get(body, "equity").n <= 1

Invalid == Outcome("BadRequestError", "instance is not valid", <<>>, <<>>, jobs, <<>>)

\* the two gates of middleware/auth: ensureLoggedIn lets a request with a valid
\* credential through, isAdmin one whose credential has the admin flag
EnsureLoggedIn(cred) == cred \in {"user", "admin"}
IsAdmin(cred) == cred = "admin"

\* what each gate answers when it stops the request
LoggedOutError == Outcome("UnauthorizedError", "Unauthorized", <<>>, <<>>, jobs, <<>>)
NotAdminError == Outcome("UnauthorizedError", "Unauthorized", <<>>, <<>>, jobs, <<>>)

\* a request as a route leaves it: the gate that stopped it ("" when none did)
\* and what came of it
Stopped(gate, error) == [gate |-> gate, out |-> error]
Handled(out) == [gate |-> "", out |-> out]

\* a variant without ensureLoggedIn
PostJobsOpen(cred, body) ==
    IF ~ValidJobNew(body) THEN Handled(Invalid) ELSE Handled(JobCreate(body))

\* router.post("/", ensureLoggedIn, ...)
PostJobs(cred, body) ==
    IF ~EnsureLoggedIn(cred) THEN Stopped("ensureLoggedIn", LoggedOutError)
    ELSE IF ~ValidJobNew(body) THEN Handled(Invalid)
    ELSE Handled(JobCreate(body))

\* a variant without isAdmin
PatchJobNoAdminGate(cred, id, body) ==
    IF ~EnsureLoggedIn(cred) THEN Stopped("ensureLoggedIn", LoggedOutError)
    ELSE IF ~ValidJobUpdate(body) THEN Handled(Invalid)
    ELSE Handled(JobUpdate(id, body))

\* router.patch("/:id", ensureLoggedIn, isAdmin, ...)
PatchJob(cred, id, body) ==
    IF ~EnsureLoggedIn(cred) THEN Stopped("ensureLoggedIn", LoggedOutError)
    ELSE IF ~IsAdmin(cred) THEN Stopped("isAdmin", NotAdminError)
    ELSE IF ~ValidJobUpdate(body) THEN Handled(Invalid)
    ELSE Handled(JobUpdate(id, body))

\* router.delete("/:id", ensureLoggedIn, isAdmin, ...)
DeleteJob(cred, id) ==
    IF ~EnsureLoggedIn(cred) THEN Stopped("ensureLoggedIn", LoggedOutError)
    ELSE IF ~IsAdmin(cred) THEN Stopped("isAdmin", NotAdminError)
    ELSE Handled(JobRemove(id))

\* the most jobs ever inserted: the id sequence is not explored beyond it
MaxId == 4

RequestPostJobs(cred, body) ==
    LET done == PostJobs(cred, body)
    IN  /\ last.op = "idle"
        /\ http.method = ""
        /\ nextId <= MaxId
        /\ http' = Response("POST", cred, Undefined, body, 201, done.gate, done.out)
        /\ jobs' = done.out.rows
        /\ nextId' = IF Len(done.out.stmts) = 2 THEN nextId + 1 ELSE nextId
        /\ UNCHANGED <<companies, last>>

RequestPatchJob(cred, id, body) ==
    LET done == PatchJob(cred, id, body)
    IN  /\ last.op = "idle"
        /\ http.method = ""
        /\ http' = Response("PATCH", cred, id, body, 200, done.gate, done.out)
        /\ jobs' = done.out.rows
        /\ UNCHANGED <<companies, nextId, last>>

RequestDeleteJob(cred, id) ==
    LET done == DeleteJob(cred, id)
    IN  /\ last.op = "idle"
        /\ http.method = ""
        /\ http' = Response("DELETE", cred, id, <<>>, 200, done.gate, done.out)
        /\ jobs' = done.out.rows
        /\ UNCHANGED <<companies, nextId, last>>

Entry(key, val) == [k |-> key, v |-> val]

\* the bodies posted: a new job, the job that is already there, a body with
\* fields missing
PostBodies ==
    {<<Entry("title", Str(<<"x">>)), Entry("salary", Num(3)), Entry("equity", Num(0)),
       Entry("companyHandle", C1Handle)>>,
     <<Entry("title", Str(<<"b">>)), Entry("salary", Num(10)), Entry("equity", Num(0)),
       Entry("companyHandle", C2Handle)>>,
     <<Entry("title", Str(<<"x">>)), Entry("salary", Num(3))>>}

\* the bodies patched
PatchBodies ==
    {<<Entry("title", Str(<<"x">>))>>,
     <<Entry("id", Str(<<"1">>))>>,
     <<Entry("salary", Str(<<"x">>))>>,
     <<>>}

RouteQueries == {q \in QueryStrings : Len(q) <= 1}

Next ==
    \/ \E c \in Credentials, b \in PostBodies : RequestPostJobs(c, b)
    \/ \E c \in Credentials, q \in RouteQueries : RequestGetJobs(c, q)
    \/ \E c \in Credentials, i \in IdArgs, b \in PatchBodies : RequestPatchJob(c, i, b)
    \/ \E c \in Credentials, i \in IdArgs : RequestDeleteJob(c, i)
    \/ Return

Spec == Init /\ [][Next]_vars

(***************************************************************************)
(* Properties of the jobs routes, checked under Spec.                      *)
(***************************************************************************)
\* C8: the stored jobs change through PATCH or DELETE only for a request
\* with the admin credential and through POST only for one with a valid
\* credential; a request of these routes with no or an invalid credential
\* is stopped by ensureLoggedIn, with no statement sent and no job changed.
C8_MutationNeedsCredential ==
    [][/\ jobs' # jobs =>
             \/ http'.method \in {"PATCH", "DELETE"} /\ http'.cred = "admin"
             \/ http'.method = "POST" /\ http'.cred \in {"user", "admin"}
       /\ (/\ http'.method \in {"POST", "PATCH", "DELETE"}
           /\ http'.cred \in {"none", "invalid"}) =>
             /\ http'.gate = "ensureLoggedIn"
             /\ http'.status = 401
             /\ http'.stmts = <<>>
             /\ jobs' = jobs
             /\ nextId' = nextId]_vars

\* a user who is not an admin has posted a job
C8_Witness ==
    /\ http.method = "POST"
    /\ http.cred = "user"
    /\ http.status = 201
    /\ Cardinality(jobs) = 3
    /\ \E r \in jobs : r.id = Num(3) /\ http.body.id = Num(3)

\* what the same request gets with no credential
StatusAndMessage(done) ==
    <<IF done.out.error = "" THEN 200 ELSE ErrorStatus(done.out.error), done.out.message>>
AnonymousAnswer ==
    IF http.method = "PATCH" THEN StatusAndMessage(PatchJob("none", http.id, http.input))
    ELSE StatusAndMessage(DeleteJob("none", http.id))

ExecInsertCompany(rows, stmt) ==
    LET params == stmt.params
        malformed == Len(stmt.columns) # Len(params)
                     \/ \E i \in 1..Len(stmt.columns) : stmt.columns[i] \notin CompanyColumns
        illTyped == \E i \in 1..Len(stmt.columns) : ~Storable(stmt.columns[i], params[i])
        blank == [handle |-> Undefined, name |-> Undefined, description |-> Undefined,
                  num_employees |-> Undefined, logo_url |-> Undefined]
        row == AssignCols(blank, [i \in 1..Len(stmt.columns) |->
                                     [col |-> stmt.columns[i], ph |-> i]], params, 1)
    IN  IF malformed \/ illTyped \/ (\E r \in rows : r.handle = row.handle)
        THEN [error |-> "DbError", rows |-> rows, returned |-> {}]
        ELSE [error |-> "", rows |-> rows \cup {row}, returned |-> {row}]

\* the query of company.js:20-24
CompanyDuplicateCheck(data) ==
    [kind |-> "SELECT", table |-> "companies",
     text |-> "SELECT handle FROM companies WHERE handle = $1",
     params |-> <<Get(data, "handle")>>,
     select |-> <<"handle">>,
     conditions |-> <<"handle = $1">>,
     where |-> <<[col |-> "handle", op |-> "=", ph |-> 1]>>]

\* the statement of company.js:29-41
CompanyInsertStmt(data) ==
    [kind |-> "INSERT", table |-> "companies",
     text |-> "INSERT INTO companies (handle, name, description, num_employees, logo_url) "
              \o "VALUES ($1, $2, $3, $4, $5) RETURNING handle, name, description, "
              \o "num_employees AS \"numEmployees\", logo_url AS \"logoUrl\"",
     params |-> <<Get(data, "handle"), Get(data, "name"), Get(data, "description"),
                  Get(data, "numEmployees"), Get(data, "logoUrl")>>,
     columns |-> <<"handle", "name", "description", "num_employees", "logo_url">>]

\* a variant that inserts without looking at what the duplicate check found
CompanyCreateUnchecked(data) ==
    LET check == CompanyDuplicateCheck(data)
        stmt == CompanyInsertStmt(data)
        row == AssignCols([handle |-> Undefined, name |-> Undefined,
                           description |-> Undefined, num_employees |-> Undefined,
                           logo_url |-> Undefined],
                          [i \in 1..5 |-> [col |-> stmt.columns[i], ph |-> i]],
                          stmt.params, 1)
    IN  Outcome("", "", <<check, stmt>>, CompanyView(row), companies \cup {row}, data)

CompanyCreate(data) ==
    LET check == CompanyDuplicateCheck(data)
        found == ExecSelect(companies, CompanyColumns, check)
        stmt == CompanyInsertStmt(data)
        res == ExecInsertCompany(companies, stmt)
    IN  IF found.error # ""
        THEN Outcome("DbError", "", <<check>>, <<>>, companies, data)
        ELSE IF found.returned # {}
        THEN Outcome("BadRequestError",
                     "Duplicate company: " \o Text(Chars(Get(data, "handle"))),
                     <<check>>, <<>>, companies, data)
        ELSE IF res.error # ""
        THEN Outcome("DbError", "", <<check, stmt>>, <<>>, companies, data)
        ELSE Outcome("", "", <<check, stmt>>, CompanyView(CHOOSE r \in res.returned : TRUE),
                     res.rows, data)

\* a variant that answers a delete of no row like a delete of one
CompanyRemoveSilent(handle, cascade) ==
    LET stmt == [kind |-> "DELETE", table |-> "companies",
                 text |-> "DELETE FROM companies WHERE handle = $1 RETURNING handle",
                 params |-> <<handle>>]
        res == ExecDelete(companies, "handle", stmt)
    IN  [out |-> Outcome("", "", <<stmt>>, <<>>, res.rows, <<>>),
         jobs |-> {j \in jobs : j.company_handle \in Handles(res.rows)}]

\* Company.remove.  What the database does with the jobs of a deleted company is
\* set by the schema, which the models do not show: with cascade the jobs go
\* with it, without it the delete is refused while jobs refer to the company.
CompanyRemove(handle, cascade) ==
    LET stmt == [kind |-> "DELETE", table |-> "companies",
                 text |-> "DELETE FROM companies WHERE handle = $1 RETURNING handle",
                 params |-> <<handle>>]
        res == ExecDelete(companies, "handle", stmt)
        orphans == {j \in jobs : j.company_handle \notin Handles(res.rows)}
    IN  IF res.error # "" \/ (orphans # {} /\ ~cascade)
        THEN [out |-> Outcome("DbError", "", <<stmt>>, <<>>, companies, <<>>), jobs |-> jobs]
        ELSE IF res.returned = {}
        THEN [out |-> Outcome("NotFoundError", "No company: " \o Text(Chars(handle)),
                              <<stmt>>, <<>>, res.rows, <<>>),
              jobs |-> jobs]
        ELSE [out |-> Outcome("", "", <<stmt>>, <<>>, res.rows, <<>>),
              jobs |-> jobs \ orphans]

\* !job for job = jobRes.rows: an array, even an empty one, is an object, and
\* every object is truthy
TruthyArray(rows) == TRUE

\* Job.getId: job is the array of the rows, not its first element
JobGetId(id) ==
    LET stmt == [kind |-> "SELECT", table |-> "jobs",
                 text |-> "SELECT id, title, company_handle AS \"companyHandle\", salary, "
                          \o "equity FROM jobs WHERE id = $1 ORDER BY title",
                 params |-> <<id>>,
                 select |-> <<"id", "title", "company_handle AS \"companyHandle\"",
                              "salary", "equity">>,
                 conditions |-> <<"id = $1">>,
                 where |-> <<[col |-> "id", op |-> "=", ph |-> 1]>>]
        res == ExecSelect(jobs, JobColumns, stmt)
        job == {JobView(r) : r \in res.returned}
    IN  IF res.error # ""
        THEN Outcome("DbError", "", <<stmt>>, <<>>, jobs, <<>>)
        ELSE IF ~TruthyArray(job)
        THEN Outcome("NotFoundError", "No Jobs listed with id " \o Text(Chars(id)),
                     <<stmt>>, <<>>, jobs, <<>>)
        ELSE Outcome("", "", <<stmt>>, job, jobs, <<>>)

\* router.get("/id/:id"), open to all
GetJobById(id) == JobGetId(id)

(***************************************************************************)
(* The calls of the models that read and change the stored rows.           *)
(***************************************************************************)
CallJobRemove(id) ==
    LET out == JobRemove(id)
    IN  /\ last.op = "idle"
        /\ http.method = ""
        /\ last' = Called("Job.remove", id, <<>>, <<>>, out)
        /\ jobs' = out.rows
        /\ UNCHANGED <<companies, nextId, http>>

CallCompanyRemove(handle, cascade) ==
    LET done == CompanyRemove(handle, cascade)
    IN  /\ last.op = "idle"
        /\ http.method = ""
        /\ last' = Called("Company.remove", handle, <<>>, <<>>, done.out)
        /\ companies' = done.out.rows
        /\ jobs' = done.jobs
        /\ UNCHANGED <<nextId, http>>

CallJobGetId(id) ==
    LET out == JobGetId(id)
    IN  /\ last.op = "idle"
        /\ http.method = ""
        /\ last' = Called("Job.getId", id, <<>>, <<>>, out)
        /\ UNCHANGED <<companies, jobs, nextId, http>>

RequestGetJobById(cred, id) ==
    /\ last.op = "idle"
    /\ http.method = ""
    /\ http' = Response("GET", cred, id, <<>>, 200, "", GetJobById(id))
    /\ UNCHANGED <<companies, jobs, nextId, last>>

CallJobCreate(data) ==
    LET out == JobCreate(data)
    IN  /\ last.op = "idle"
        /\ http.method = ""
        /\ nextId <= MaxId
        /\ last' = Called("Job.create", Undefined, data, <<>>, out)
        /\ jobs' = out.rows
        /\ nextId' = IF Len(out.stmts) = 2 THEN nextId + 1 ELSE nextId
        /\ UNCHANGED <<companies, http>>

CallCompanyCreate(data) ==
    LET out == CompanyCreate(data)
    IN  /\ last.op = "idle"
        /\ http.method = ""
        /\ last' = Called("Company.create", Undefined, data, <<>>, out)
        /\ companies' = out.rows
        /\ UNCHANGED <<jobs, nextId, http>>

C3Handle == Str(<<"c", "3">>)

\* the jobs created: a new job at c1, the job that c2 already has, a job at a
\* company that is not stored
NewJobs ==
    {<<Entry("title", Str(<<"x">>)), Entry("salary", Num(3)), Entry("equity", Num(0)),
       Entry("companyHandle", C1Handle)>>,
     <<Entry("title", Str(<<"b">>)), Entry("salary", Num(10)), Entry("equity", Num(1)),
       Entry("companyHandle", C2Handle)>>,
     <<Entry("title", Str(<<"x">>)), Entry("salary", Num(3)), Entry("equity", Num(0)),
       Entry("companyHandle", NoHandle)>>}

\* the companies created: a new one, and one with the handle of c1
NewCompanies ==
    {<<Entry("handle", C3Handle), Entry("name", Str(<<"x">>)),
       Entry("description", Str(<<"d">>)), Entry("numEmployees", Num(3)),
       Entry("logoUrl", Str(<<"u">>))>>,
     <<Entry("handle", C1Handle), Entry("name", Str(<<"x">>)),
       Entry("description", Str(<<"d">>)), Entry("numEmployees", Num(3)),
       Entry("logoUrl", Str(<<"u">>))>>}

\* the updates made between the other calls: one field, no field
CompanyPatches == {<<Entry("name", Str(<<"x">>))>>, <<>>}
JobPatches == {<<Entry("salary", Num(3))>>, <<Entry("id", Num(2))>>, <<>>}
\* ids as the models get them from the routes (strings) and from direct calls
GetIdArgs == IdArgs \cup {Str(<<"1">>), Str(<<"0">>)}

NextModels ==
    \/ \E h \in HandleArgs, d \in CompanyPatches : CallCompanyUpdate(h, d)
    \/ \E i \in IdArgs, d \in JobPatches : CallJobUpdate(i, d)
    \/ \E i \in IdArgs : CallJobRemove(i)
    \/ \E h \in HandleArgs, cascade \in BOOLEAN : CallCompanyRemove(h, cascade)
    \/ \E i \in GetIdArgs : CallJobGetId(i)
    \/ \E c \in {"none", "admin"}, i \in {Str(<<"1">>), Str(<<"0">>)} : RequestGetJobById(c, i)
    \/ \E d \in NewJobs : CallJobCreate(d)
    \/ \E d \in NewCompanies : CallCompanyCreate(d)
    \/ Return

SpecModels == Init /\ [][NextModels]_vars

(***************************************************************************)
(* Properties of the keyed operations and of the creates, checked under    *)
(* SpecModels.                                                             *)
(***************************************************************************)
\* whether a stored row has the key the call was given
JobStored(id) == \E r \in jobs : r.id = Stored("id", id)
CompanyStored(handle) == \E r \in companies : r.handle = Stored("handle", handle)

\* the data of an update that the method takes to the database: some field, and
\* for a job neither id nor companyHandle
UpdatableData(op, data) ==
    /\ data # <<>>
    /\ op = "Job.update" => ~HasKey(data, "id") /\ ~HasKey(data, "companyHandle")

C12_GetIdNotFound ==
    /\ (last.op = "Job.getId" /\ ~JobStored(last.key)) =>
          /\ last.error = "NotFoundError"
          /\ last.message = "No Jobs listed with id " \o Text(Chars(last.key))
    /\ (last.op = "Job.getId" /\ JobStored(last.key)) =>
          /\ last.error = ""
          /\ \E r \in jobs : r.id = Stored("id", last.key) /\ last.ret = {JobView(r)}
    /\ (http.method = "GET" /\ http.id # Undefined /\ ~JobStored(http.id)) =>
          /\ http.status = 404
          /\ http.message = "No Jobs listed with id " \o Text(Chars(http.id))

\* whether a stored job has the company, title and salary of data
SameJobStored(data) ==
    \E r \in jobs : /\ r.company_handle = Get(data, "companyHandle")
                    /\ r.title = Get(data, "title")
                    /\ r.salary = Get(data, "salary")

InvalidQuery(op, query) ==
    \/ NoTruthyRecognized(query, Recognized(op))
    \/ /\ op = "Company.filter"
       /\ HasKey(query, "minEmployees")
       /\ HasKey(query, "maxEmployees")
       /\ NumGt(ToNumber(Get(query, "minEmployees")), ToNumber(Get(query, "maxEmployees")))

\* whether a stored row meets the criteria, as the criteria are meant
CompanyMeets(r, query) ==
    /\ Truthy(Get(query, "nameLike")) =>
          LikeMatch(Chars(r.name), <<"%">> \o Chars(Get(query, "nameLike")) \o <<"%">>)
    /\ Truthy(Get(query, "minEmployees")) =>
          r.num_employees.n >= ToNumber(Get(query, "minEmployees"))
    /\ Truthy(Get(query, "maxEmployees")) =>
          r.num_employees.n <= ToNumber(Get(query, "maxEmployees"))
JobMeets(r, query) ==
    /\ MeetsOtherCriteria(r, query)
    /\ Truthy(Get(query, "hasEquity")) => r.equity.n > 0
NoRowMeets(op, query) ==
    IF op = "Company.filter" THEN \A r \in companies : ~CompanyMeets(r, query)
    ELSE \A r \in jobs : ~JobMeets(r, query)

\* C14: a filter called with valid criteria that no stored row meets returns
\* the empty list and throws nothing; a filter throws for invalid criteria
\* only.
C14_EmptyResultIsNoError ==
    last.op \in FilterOps =>
        /\ (~InvalidQuery(last.op, last.data) /\ NoRowMeets(last.op, last.data)) =>
              (last.error = "" /\ last.ret = {})
        /\ last.error # "" => InvalidQuery(last.op, last.data)

\* the entries of the criteria that give a fragment: those with a recognized
\* key, and (when truthy is asked) a truthy value
Fragmented(op, query, truthy) ==
    SelectSeq(query, LAMBDA e : e.k \in Recognized(op) /\ (truthy => Truthy(e.v)))

\* the value bound for an entry of the criteria
BoundValue(op, e) == IF e.k = ContainsKey(op) THEN Wrapped(e.v) ELSE e.v

\* the text of a filter's statement around its predicate
StmtAround(op, predicate) ==
    IF op = "Company.filter"
    THEN CompanyFilterStmt([NoConditions EXCEPT !.conditions = <<predicate>>]).text
    ELSE JobFilterStmt([NoConditions EXCEPT !.conditions = <<predicate>>]).text

\* the statement of a filter has one fragment for each entry of es, in that
\* order, the j-th with placeholder $j and the entry's value bound at j, and
\* its predicate is the fragments joined with ' AND '
FragmentsAre(call, es) ==
    LET stmt == call.stmts[1]
    IN  /\ Len(stmt.conditions) = Len(es)
        /\ Len(stmt.where) = Len(es)
        /\ Len(stmt.params) = Len(es)
        /\ \A j \in 1..Len(es) :
              /\ stmt.conditions[j] = call.map[es[j].k].text \o " $" \o ToString(j)
              /\ stmt.where[j].col = call.map[es[j].k].col
              /\ stmt.where[j].ph = j
              /\ stmt.params[j] = BoundValue(call.op, es[j])
        /\ stmt.text = StmtAround(call.op, JoinWith(stmt.conditions, " AND "))

\* C16 (as stated): a filter that has passed its first check builds one
\* fragment for each recognized key that is in the criteria.
C16_FragmentPerPresentKey ==
    (last.op \in FilterOps /\ last.stmts # <<>>) =>
        FragmentsAre(last, Fragmented(last.op, last.data, FALSE))

\* C16 (amended): a filter that has passed its checks builds one fragment for
\* each recognized key of the criteria whose value is truthy, in the order of
\* the criteria, the j-th with placeholder $j and params[j] the value bound
\* for that key, joined with ' AND '; a key that is not recognized, and a
\* recognized key with a falsy value, gives no fragment and no bound value.
C16_FragmentPerTruthyKey ==
    (last.op \in FilterOps /\ last.stmts # <<>>) =>
        FragmentsAre(last, Fragmented(last.op, last.data, TRUE))

\* an unrecognized key first, then two recognized keys, of which the second
\* has a falsy value
C16_Witness ==
    /\ last.op = "Company.filter"
    /\ ObjectKeys(last.data) = <<"notValid", "nameLike", "maxEmployees">>
    /\ Get(last.data, "maxEmployees") = Num(0)
    /\ last.error = ""
    /\ last.stmts[1].conditions = <<"name ILIKE $1">>
    /\ last.stmts[1].params = <<Str(<<"%", "a", "%">>)>>

\* C17: every statement a filter sends to the database has at least one
\* fragment in its WHERE clause.
C17_WhereNeverEmpty ==
    (last.op \in FilterOps /\ last.stmts # <<>>) =>
        /\ Len(last.stmts[1].where) >= 1
        /\ Len(last.stmts[1].conditions) >= 1
        /\ JoinWith(last.stmts[1].conditions, " AND ") # ""
        /\ last.stmts[1].text # StmtAround(last.op, "")

\* of three keys in the criteria one gives a fragment
C17_Witness ==
    /\ last.op = "Job.filter"
    /\ ObjectKeys(last.data) = <<"notValid", "title", "hasEquity">>
    /\ Get(last.data, "title") = Str(<<>>)
    /\ Get(last.data, "hasEquity") = Bool(TRUE)
    /\ Len(last.stmts) = 1
    /\ Len(last.stmts[1].where) = 1

(***************************************************************************)
(* A caller that keeps its criteria object and calls the filter with it a  *)
(* second time.  first is the first call; data is the object as the first  *)
(* call left it.                                                           *)
(***************************************************************************)
CalledAgain(op, first, map, out) ==
    [op |-> op, key |-> Undefined, data |-> first.after, after |-> out.after, map |-> map,
     error |-> out.error, message |-> out.message, stmts |-> out.stmts, ret |-> out.ret,
     first |-> first]

CallCompanyFilterAgain ==
    LET out == CompanyFilter(last.after)
    IN  /\ last.op = "Company.filter"
        /\ http.method = ""
        /\ last' = CalledAgain("Company.filter again", last, CompanySqlMap, out)
        /\ UNCHANGED <<companies, jobs, nextId, http>>

CallJobFilterAgain ==
    LET out == JobFilter(last.after)
    IN  /\ last.op = "Job.filter"
        /\ http.method = ""
        /\ last' = CalledAgain("Job.filter again", last, JobSqlMap(out.after), out)
        /\ UNCHANGED <<companies, jobs, nextId, http>>

NextRepeat ==
    \/ \E q \in CompanyQueries : CallCompanyFilter(q)
    \/ \E q \in JobQueries : CallJobFilter(q)
    \/ CallCompanyFilterAgain
    \/ CallJobFilterAgain
    \/ Return

SpecRepeat == Init /\ [][NextRepeat]_vars

\* C18: a filter leaves the criteria object of its caller as it was, and a
\* second call with the same object builds the predicate text and the bound
\* values of the first.
C18_CriteriaUnchanged ==
    /\ last.op \in FilterOps => last.after = last.data
    /\ last.op \in {"Company.filter again", "Job.filter again"} =>
          /\ last.error = last.first.error
          /\ last.first.stmts # <<>> =>
                /\ last.stmts # <<>>
                /\ last.stmts[1].text = last.first.stmts[1].text
                /\ last.stmts[1].params = last.first.stmts[1].params

(***************************************************************************)
(* The effect of an update on the stored rows, checked under SpecUpdate.   *)
(***************************************************************************)
\* row r with the fields named in data set to the values given there
Changed(r, data, map) ==
    [c \in DOMAIN r |->
        IF \E i \in 1..Len(data) : ClaimedColumn(map, data[i].k) = c
        THEN data[CHOOSE i \in 1..Len(data) : ClaimedColumn(map, data[i].k) = c].v
        ELSE r[c]]

\* C15: a step of Job.update or Company.update that succeeds changes, in the
\* row that had the key, the fields named in data to the values given and
\* nothing else; every other row, and the other table, stay as they were.
C15_UpdateChangesNamedFields ==
    [][/\ (last'.op = "Job.update" /\ last'.error = "") =>
             /\ \E r \in jobs :
                   /\ r.id = Stored("id", last'.key)
                   /\ jobs' = (jobs \ {r}) \cup {Changed(r, last'.data, JobJsToSql)}
             /\ companies' = companies
       /\ (last'.op = "Company.update" /\ last'.error = "") =>
             /\ \E r \in companies :
                   /\ r.handle = Stored("handle", last'.key)
                   /\ companies' = (companies \ {r})
                                      \cup {Changed(r, last'.data, CompanyJsToSql)}
             /\ jobs' = jobs]_vars

\* the salary of job 1 has been set to 3: its title, and job 2, are as before
C15_Witness ==
    /\ last.op = "Job.update"
    /\ last.key = Num(1)
    /\ last.data = <<[k |-> "salary", v |-> Num(3)]>>
    /\ last.error = ""
    /\ last.ret.salary = Num(3)
    /\ \E r \in jobs : r.id = Num(1) /\ r.salary = Num(3) /\ r.equity = Num(1)
    /\ \E r \in InitJobs : r.id = Num(2) /\ r \in jobs

(***************************************************************************)
(* The placeholders of the statements of the updates and of the filters.   *)
(***************************************************************************)
NextStatements ==
    \/ \E h \in HandleArgs, d \in CompanyUpdates : CallCompanyUpdate(h, d)
    \/ \E i \in IdArgs, d \in JobUpdates : CallJobUpdate(i, d)
    \/ \E q \in CompanyQueries : CallCompanyFilter(q)
    \/ \E q \in JobQueries : CallJobFilter(q)
    \/ Return

SpecStatements == Init /\ [][NextStatements]_vars

\* the key column of the table an update is about
KeyClause(op) == IF op = "Company.update" THEN " WHERE handle = $" ELSE " WHERE id = $"
UpdateHead(op) == IF op = "Company.update" THEN "UPDATE companies SET " ELSE "UPDATE jobs SET "
UpdateTail(op) ==
    IF op = "Company.update"
    THEN " RETURNING handle, name, description, num_employees AS \"numEmployees\", "
         \o "logo_url AS \"logoUrl\""
    ELSE " RETURNING id, title, company_handle AS \"companyHandle\", salary, equity"

\* C19: every statement of Company.update, Job.update, Company.filter and
\* Job.filter refers to exactly the placeholders $1..$k for its k bound
\* values; an update of N fields assigns with $1..$N in the order of the
\* fields and refers to the row key, bound last, as $(N+1) in its WHERE.
C19_PlaceholdersMatchValues ==
    /\ (last.op \in {"Company.update", "Job.update"} /\ last.stmts # <<>>) =>
          LET stmt == last.stmts[1]
              N == Len(last.data)
          IN  /\ Len(stmt.params) = N + 1
              /\ Len(stmt.set) = N
              /\ \A i \in 1..N : stmt.set[i].ph = i /\ stmt.params[i] = last.data[i].v
              /\ stmt.where = N + 1
              /\ stmt.params[N + 1] = last.key
              /\ {stmt.set[i].ph : i \in 1..N} \cup {stmt.where} = 1..Len(stmt.params)
              /\ stmt.text = UpdateHead(last.op)
                    \o JoinWith([i \in 1..N |->
                                    "\"" \o ClaimedColumn(last.map, last.data[i].k)
                                    \o "\"=$" \o ToString(i)], ", ")
                    \o KeyClause(last.op) \o ToString(N + 1) \o UpdateTail(last.op)
    /\ (last.op \in FilterOps /\ last.stmts # <<>>) =>
          LET stmt == last.stmts[1]
              k == Len(stmt.params)
          IN  /\ Len(stmt.where) = k
              /\ Len(stmt.conditions) = k
              /\ {stmt.where[j].ph : j \in 1..k} = 1..k
              /\ \A j \in 1..k :
                    stmt.conditions[j] =
                        last.map[Fragmented(last.op, last.data, TRUE)[j].k].text
                        \o " $" \o ToString(stmt.where[j].ph)

\* an update of two fields: the handle is the third value
C19_Witness ==
    /\ last.op = "Company.update"
    /\ last.error = ""
    /\ Len(last.data) = 2
    /\ last.stmts[1].where = 3
    /\ last.stmts[1].params[3] = C1Handle
    /\ last.stmts[1].set[2].ph = 2

(***************************************************************************)
(* Concurrent calls of Job.create.  Each call is two steps, the duplicate  *)
(* check and the insert, with an await between them; the steps of the      *)
(* calls in progress interleave.  last.procs are those calls.              *)
(***************************************************************************)
\* the largest number of calls of Job.create in progress together
MaxCreates == 2

Creating(procs) ==
    [op |-> "Job.create concurrent", key |-> Undefined, data |-> <<>>, after |-> <<>>,
     map |-> <<>>, error |-> "", message |-> "", stmts |-> <<>>, ret |-> <<>>,
     procs |-> procs]

Procs == IF last.op = "Job.create concurrent" THEN last.procs ELSE <<>>

\* job.js:18-28: the duplicate check and what follows from it.  A call that
\* found nothing goes on to the insert after its await.
BeginJobCreate(data) ==
    LET out == JobCreate(data)
        proc == IF Len(out.stmts) = 1
                THEN [data |-> data, pc |-> "done", error |-> out.error, ret |-> out.ret]
                ELSE [data |-> data, pc |-> "checked", error |-> "", ret |-> <<>>]
    IN  /\ last.op \in {"idle", "Job.create concurrent"}
        /\ http.method = ""
        /\ Len(Procs) < MaxCreates
        /\ nextId + Len(Procs) <= MaxId
        /\ last' = Creating(Append(Procs, proc))
        /\ UNCHANGED <<companies, jobs, nextId, http>>

\* job.js:30-40: the insert, on the table as it is by then
InsertJobCreate(p) ==
    LET out == JobCreateInsert(last.procs[p].data, JobDuplicateCheck(last.procs[p].data))
    IN  /\ last.op = "Job.create concurrent"
        /\ p \in 1..Len(last.procs)
        /\ last.procs[p].pc = "checked"
        /\ last' = Creating([last.procs EXCEPT ![p] =
                                [data |-> @.data, pc |-> "done", error |-> out.error,
                                 ret |-> out.ret]])
        /\ jobs' = out.rows
        /\ nextId' = nextId + 1
        /\ UNCHANGED <<companies, http>>

\* all the calls have returned or thrown
ReturnCreates ==
    /\ last.op = "Job.create concurrent"
    /\ \A p \in 1..Len(last.procs) : last.procs[p].pc = "done"
    /\ last' = Idle
    /\ UNCHANGED <<companies, jobs, nextId, http>>

\* the jobs created together: the new job at c1 and the job that c2 already
\* has, and jobs that differ from them in the salary or in the company
ConcurrentJobs ==
    {d \in NewJobs : Get(d, "companyHandle") # NoHandle}
        \cup {<<Entry("title", Str(<<"x">>)), Entry("salary", Num(5)), Entry("equity", Num(0)),
                Entry("companyHandle", C1Handle)>>,
              <<Entry("title", Str(<<"x">>)), Entry("salary", Num(3)), Entry("equity", Num(0)),
                Entry("companyHandle", C2Handle)>>,
              <<Entry("title", Str(<<"b">>)), Entry("salary", Num(10)), Entry("equity", Num(0)),
                Entry("companyHandle", C1Handle)>>}

NextConcurrent ==
    \/ \E d \in ConcurrentJobs : BeginJobCreate(d)
    \/ \E p \in 1..MaxCreates : InsertJobCreate(p)
    \/ ReturnCreates

SpecConcurrent == Init /\ [][NextConcurrent]_vars

SameJob(r1, r2) ==
    /\ r1.company_handle = r2.company_handle
    /\ r1.title = r2.title
    /\ r1.salary = r2.salary

\* C20: whatever the interleaving of concurrent calls of Job.create, no two
\* stored jobs have the same (companyHandle, title, salary), and of the calls
\* in progress for the same job at most one succeeds, the others ending in
\* BadRequestError.
C20_NoDuplicateUnderInterleaving ==
    /\ \A r1, r2 \in jobs : SameJob(r1, r2) => r1 = r2
    /\ \A p, q \in 1..Len(Procs) :
          (/\ p # q
           /\ Procs[p].data = Procs[q].data
           /\ Procs[p].pc = "done"
           /\ Procs[q].pc = "done"
           /\ Procs[p].error = "") => Procs[q].error = "BadRequestError"

====
